---- MODULE Spec2Model ----
(***************************************************************************)
(* Prediction-pool tracker (app.py, models.py): the Match table and its    *)
(* reconciliation against the match feed, the Prediction table and its     *)
(* lock window, the manual result entry and the scoring / leaderboard.     *)
(* Every HTTP request is served to completion before the next one starts   *)
(* (single-threaded Flask), so each handler is one atomic action.  Time is *)
(* counted in whole minutes (UTC).  Tables are sequences of rows whose     *)
(* index is the autoincrement primary key; no row is ever deleted.         *)
(***************************************************************************)
EXTENDS Integers, Sequences, FiniteSets

VARIABLES
    now,          \* datetime.now(timezone.utc), in minutes
    matches,      \* table "matches": row i has primary key id = i
    predictions,  \* table "predictions": row i has primary key id = i
    response,     \* what the last request returned to its caller
    requests      \* number of state-changing requests served so far

vars == <<now, matches, predictions, response, requests>>

----------------------------------------------------------------------------
(* Bounds of the model *)

MaxTime == 6        \* the clock runs from minute 0 to MaxTime
MaxRequests == 3    \* fetch / submit / manual-result requests per behaviour
MaxScore == 1       \* goals per side in feed records and manual entries
NumPlayers == 2     \* leading entries of the default roster that are seeded
MaxFeedLen == 2     \* match records in one feed response
MaxManual == 1      \* home_<id> fields in one manual result form

(* Program constants *)

LockMinutes == 5    \* timedelta(minutes=5)

----------------------------------------------------------------------------
(* Values *)

\* An optional value (Python None, SQL NULL, a missing key) is a sequence of
\* at most one element.
Nothing == <<>>
Some(x) == <<x>>
IsNone(o) == o = Nothing
Get(o) == o[1]

COMPETITION_CODE == "PL"

\* Strings that the code inspects are sequences of characters.
HOME == <<"H", "O", "M", "E">>
AWAY == <<"A", "W", "A", "Y">>
DRAW == <<"D", "R", "A", "W">>

LowerCase == <<"a", "d", "e", "h", "m", "o", "r", "w", "x", "y">>
UpperCase == <<"A", "D", "E", "H", "M", "O", "R", "W", "X", "Y">>

\* str.upper(), character by character
UpperChar(c) ==
    IF \E i \in DOMAIN LowerCase : LowerCase[i] = c
    THEN UpperCase[CHOOSE i \in DOMAIN LowerCase : LowerCase[i] = c]
    ELSE c

Upper(s) == [i \in DOMAIN s |-> UpperChar(s[i])]

Digits == <<"0", "1", "2", "3", "4", "5", "6", "7", "8", "9">>
IsDigit(c) == \E i \in DOMAIN Digits : Digits[i] = c
DigitValue(c) == (CHOOSE i \in DOMAIN Digits : Digits[i] = c) - 1

\* int(text) raises ValueError unless text is a non-empty string of digits
IntRaises(text) == text = <<>> \/ \E i \in DOMAIN text : ~IsDigit(text[i])

RECURSIVE IntOf(_)
IntOf(text) ==
    IF text = <<>> THEN 0
    ELSE 10 * IntOf(SubSeq(text, 1, Len(text) - 1)) + DigitValue(text[Len(text)])

\* the decimal text of n, as a browser sends it
RECURSIVE TextOf(_)
TextOf(n) ==
    IF n < 10 THEN <<Digits[n + 1]>>
    ELSE Append(TextOf(n \div 10), Digits[(n % 10) + 1])

\* ensure_six_players: the roster, in primary-key order
DefaultNames == <<"Biniam A", "Biniam G", "Biniam E", "Abel", "Siem", "Kubrom">>
players == SubSeq(DefaultNames, 1, NumPlayers)
PlayerIds == DOMAIN players

----------------------------------------------------------------------------
(* Inputs *)

ApiIds == {101, 102}            \* football-data match ids
Matchdays == {1, 2}
KickoffEarly == LockMinutes + 1
KickoffLate == LockMinutes + 2
Scores == 0..MaxScore

\* the nested score.fullTime object of a feed record
FullTime(h, a) == Some([fullTime |-> Some([home |-> h, away |-> a])])

FeedRecord(id, date, home, away, status, score) ==
    [id |-> id, utcDate |-> date, homeTeam |-> [name |-> home],
     awayTeam |-> [name |-> away], status |-> status, score |-> score]

HomeName(id) == IF id = 101 THEN "Arsenal" ELSE "Everton"
AwayName(id) == IF id = 101 THEN "Chelsea" ELSE "Fulham"

\* the kickoff a fixture is announced with, and the one it is moved to
OwnKickoff(id) == IF id = 101 THEN KickoffEarly ELSE KickoffLate
MovedKickoff(id) == IF id = 101 THEN KickoffLate ELSE KickoffEarly

Announced(id) ==
    FeedRecord(id, OwnKickoff(id), HomeName(id), AwayName(id), Some("SCHEDULED"),
               Nothing)

Moved(id) ==
    FeedRecord(id, MovedKickoff(id), "Renamed FC", AwayName(id), Nothing,
               Some([fullTime |-> Nothing]))

\* Records a feed response may carry, for each match id: the fixture as
\* announced (no score object); the fixture moved to the other kickoff, its
\* home side renamed, with no status and a score object without fullTime;
\* the fixture with fullTime present and both scores null; the finished
\* match with every score line; the match with only the home score.
FeedRecords ==
    {Announced(id) : id \in ApiIds}
    \cup {Moved(id) : id \in ApiIds}
    \cup {FeedRecord(id, OwnKickoff(id), HomeName(id), AwayName(id), Some("TIMED"),
                     FullTime(Nothing, Nothing)) : id \in ApiIds}
    \cup {FeedRecord(id, OwnKickoff(id), HomeName(id), AwayName(id), Some("FINISHED"),
                     FullTime(Some(hs[1]), Some(hs[2]))) :
             id \in ApiIds, hs \in Scores \X Scores}
    \cup {FeedRecord(id, OwnKickoff(id), HomeName(id), AwayName(id), Some("IN_PLAY"),
                     FullTime(Some(MaxScore), Nothing)) : id \in ApiIds}

\* Bodies of a successful response: no record, any one record, or a fixture
\* as announced followed by a second record, which is the other fixture or
\* the same fixture again, moved (a repeated id)
FeedLists ==
    {f \in UNION {[1..n -> FeedRecords] : n \in 0..MaxFeedLen} :
        Len(f) >= 2 =>
            /\ f[1] \in {Announced(id) : id \in ApiIds}
            /\ \A i \in 2..Len(f) :
                  f[i] \in {Announced(id) : id \in ApiIds \ {f[1].id}}
                           \cup {Moved(f[1].id)}}

\* what requests.get gives back: a transport error, or a status code and body
FeedResponses ==
    {[kind |-> "transport_error", code |-> 0, matches |-> <<>>]}
    \cup {[kind |-> "http", code |-> 503, matches |-> <<Announced(id)>>] : id \in ApiIds}
    \cup {[kind |-> "http", code |-> 200, matches |-> f] : f \in FeedLists}

\* values of a pick_<id> form field: absent, empty, and strings
PickInputs ==
    {Nothing, Some(<<>>), Some(<<"h", "o", "m", "e">>), Some(<<"A", "w", "a", "y">>),
     Some(DRAW), Some(<<"x">>)}

\* values of the home_<id> and away_<id> fields of the manual result form
ScoreTexts == {TextOf(n) : n \in Scores} \cup {<<>>}
ManualEntries ==
    [home : {Some(t) : t \in ScoreTexts},
     away : {Some(t) : t \in ScoreTexts} \cup {Nothing}]

----------------------------------------------------------------------------
(* Queries *)

MatchIds == DOMAIN matches

\* Match.query.filter_by(api_match_id=api_id).first() over table ms
ExistingMatch(ms, api_id) ==
    IF \E i \in DOMAIN ms : ms[i].api_match_id = api_id
    THEN CHOOSE i \in DOMAIN ms :
            /\ ms[i].api_match_id = api_id
            /\ \A j \in DOMAIN ms : ms[j].api_match_id = api_id => i <= j
    ELSE 0

\* Prediction.query.filter_by(player_id=.., match_id=..).first() over table ps
ExistingPrediction(ps, player_id, match_id) ==
    IF \E i \in DOMAIN ps : ps[i].player_id = player_id /\ ps[i].match_id = match_id
    THEN CHOOSE i \in DOMAIN ps :
            /\ ps[i].player_id = player_id /\ ps[i].match_id = match_id
            /\ \A j \in DOMAIN ps :
                  (ps[j].player_id = player_id /\ ps[j].match_id = match_id) => i <= j
    ELSE 0

\* Match.query.filter_by(matchday=matchday).all(), as primary keys
MatchesOfMatchday(ms, matchday) == {i \in DOMAIN ms : ms[i].matchday = matchday}

----------------------------------------------------------------------------
(* Feed Reconciler *)

\* faulty variant: resp.raise_for_status() is not called
FetchRaisesTransportOnly(resp) == resp.kind = "transport_error"

\* requests.get raised, or resp.raise_for_status() raises (4xx / 5xx)
FetchRaises(resp) == resp.kind = "transport_error" \/ resp.code >= 400

\* fetch_matches_for_matchday: resp.json().get('matches', []), one attempt
fetch_matches_for_matchday(resp) == resp.matches

\* home_score, away_score as the loop body extracts them from record m
ExtractScores(m) ==
    IF ~IsNone(m.score) /\ ~IsNone(Get(m.score).fullTime)
    THEN LET ft == Get(Get(m.score).fullTime)
         IN  [home |-> ft.home, away |-> ft.away]
    ELSE [home |-> Nothing, away |-> Nothing]

\* m.get('status', 'SCHEDULED')
StatusOf(m) == IF IsNone(m.status) THEN "SCHEDULED" ELSE Get(m.status)

\* faulty variant: the update keeps the stored scores when the record has none
UpdatedMatchKeepScores(row, m) ==
    [row EXCEPT !.utc_date = m.utcDate,
                !.status = StatusOf(m),
                !.home_team = m.homeTeam.name,
                !.away_team = m.awayTeam.name,
                !.home_score = IF IsNone(ExtractScores(m).home) THEN @
                               ELSE ExtractScores(m).home,
                !.away_score = IF IsNone(ExtractScores(m).away) THEN @
                               ELSE ExtractScores(m).away]

\* the "update" branch: the row with the mutable columns overwritten
UpdatedMatch(row, m) ==
    [row EXCEPT !.utc_date = m.utcDate,
                !.status = StatusOf(m),
                !.home_team = m.homeTeam.name,
                !.away_team = m.awayTeam.name,
                !.home_score = ExtractScores(m).home,
                !.away_score = ExtractScores(m).away]

\* the "else" branch: Match(...) for a feed id not yet stored
NewMatch(m, matchday) ==
    [api_match_id |-> m.id,
     competition |-> COMPETITION_CODE,
     season |-> Nothing,
     matchday |-> matchday,
     utc_date |-> m.utcDate,
     home_team |-> m.homeTeam.name,
     away_team |-> m.awayTeam.name,
     status |-> StatusOf(m),
     home_score |-> ExtractScores(m).home,
     away_score |-> ExtractScores(m).away]

\* faulty variant: no lookup of the existing row, every record is inserted
UpsertOneAlwaysInsert(acc, m, matchday) ==
    [matches |-> Append(acc.matches, NewMatch(m, matchday)),
     added |-> acc.added + 1]

\* one iteration of "for m in matches"; the session autoflushes before each
\* query, so a row added earlier in the same loop is found
UpsertOne(acc, m, matchday) ==
    LET existing == ExistingMatch(acc.matches, m.id)
    IN  IF existing # 0
        THEN [matches |-> [acc.matches EXCEPT ![existing] = UpdatedMatch(@, m)],
              added |-> acc.added]
        ELSE [matches |-> Append(acc.matches, NewMatch(m, matchday)),
              added |-> acc.added + 1]

RECURSIVE UpsertLoop(_, _, _)
UpsertLoop(acc, feed, matchday) ==
    IF feed = <<>> THEN acc
    ELSE UpsertLoop(UpsertOne(acc, Head(feed), matchday), Tail(feed), matchday)

\* upsert_matches_from_api(matchday) against table ms with the feed answering
\* resp: the table after db.session.commit() and the value returned, or the
\* table as it was when the fetch raised
upsert_matches_from_api(ms, matchday, resp) ==
    IF FetchRaises(resp)
    THEN [raised |-> TRUE, matches |-> ms, added |-> 0]
    ELSE LET done == UpsertLoop([matches |-> ms, added |-> 0],
                                fetch_matches_for_matchday(resp), matchday)
         IN  [raised |-> FALSE, matches |-> done.matches, added |-> done.added]

----------------------------------------------------------------------------
(* Lock-Window Policy and Prediction Ledger *)

\* faulty variant: "if now > cutoff", the cutoff minute itself still open
LockedAfterCutoff(match, t) == t > match.utc_date - LockMinutes

\* faulty variant: the five-minute buffer forgotten, picks lock at kickoff
LockedAtKickoff(match, t) == t >= match.utc_date

\* cutoff = kickoff - timedelta(minutes=5); "if now >= cutoff: continue"
Locked(match, t) == t >= match.utc_date - LockMinutes

\* faulty variant: no lookup of the existing row, every pick is inserted
SubmitOneAlwaysInsert(ps, ms, t, player_id, match_id, pick) ==
    IF Locked(ms[match_id], t) THEN ps
    ELSE IF IsNone(pick) \/ Get(pick) = <<>> THEN ps
    ELSE Append(ps, [player_id |-> player_id, match_id |-> match_id,
                     created_at |-> t, pick |-> Upper(Get(pick))])

\* the body of "for match in matches" for one match id: table ps afterwards
SubmitOne(ps, ms, t, player_id, match_id, pick) ==
    IF Locked(ms[match_id], t) THEN ps
    ELSE IF IsNone(pick) \/ Get(pick) = <<>> THEN ps
    ELSE LET pick_val == Upper(Get(pick))
             existing == ExistingPrediction(ps, player_id, match_id)
         IN  IF existing # 0
             THEN [ps EXCEPT ![existing].pick = pick_val,
                             ![existing].created_at = t]
             ELSE Append(ps, [player_id |-> player_id, match_id |-> match_id,
                              created_at |-> t, pick |-> pick_val])

RECURSIVE SubmitLoop(_, _, _, _, _, _)
SubmitLoop(ps, ms, t, player_id, ids, form) ==
    IF ids = {} THEN ps
    ELSE LET id == CHOOSE i \in ids : \A j \in ids : i <= j
         IN  SubmitLoop(SubmitOne(ps, ms, t, player_id, id, form[id]),
                        ms, t, player_id, ids \ {id}, form)

\* make_prediction, POST: table predictions after db.session.commit()
make_prediction(ps, ms, t, player_id, matchday, form) ==
    SubmitLoop(ps, ms, t, player_id, MatchesOfMatchday(ms, matchday), form)

----------------------------------------------------------------------------
(* Administrative override *)

\* int(value) or int(request.form.get("away_<id>", 0)) raises for some entry
ManualRaises(form) ==
    \E id \in DOMAIN form :
        \/ IntRaises(Get(form[id].home))
        \/ ~IsNone(form[id].away) /\ IntRaises(Get(form[id].away))

ManualOne(row, entry) ==
    [row EXCEPT !.home_score = Some(IntOf(Get(entry.home))),
                !.away_score = IF IsNone(entry.away) THEN Some(0)
                               ELSE Some(IntOf(Get(entry.away))),
                !.status = "FINISHED"]

\* admin_manual_results, POST: form maps match primary keys (the <id> of its
\* home_<id> keys) to entries; a key naming no match is skipped
admin_manual_results(ms, form) ==
    IF ManualRaises(form) THEN ms
    ELSE [i \in DOMAIN ms |-> IF i \in DOMAIN form THEN ManualOne(ms[i], form[i])
                              ELSE ms[i]]

----------------------------------------------------------------------------
(* Scoring Engine *)

\* faulty variant: an absent score counts as 0
result_of_match_absent_as_zero(match) ==
    LET h == IF IsNone(match.home_score) THEN 0 ELSE Get(match.home_score)
        a == IF IsNone(match.away_score) THEN 0 ELSE Get(match.away_score)
    IN  IF h > a THEN Some(HOME)
        ELSE IF a > h THEN Some(AWAY)
        ELSE Some(DRAW)

\* result_of_match: None unless both scores are known
result_of_match(match) ==
    IF IsNone(match.home_score) \/ IsNone(match.away_score) THEN Nothing
    ELSE IF Get(match.home_score) > Get(match.away_score) THEN Some(HOME)
    ELSE IF Get(match.away_score) > Get(match.home_score) THEN Some(AWAY)
    ELSE Some(DRAW)

points_for_prediction(pred_pick, match) ==
    LET res == result_of_match(match)
    IN  IF IsNone(res) THEN 0
        ELSE IF pred_pick = Get(res) THEN 1 ELSE 0

\* the inner loop of totals for one player: "for p in preds: total += ..."
RECURSIVE PlayerTotal(_, _, _, _)
PlayerTotal(ps, ms, player_id, i) ==
    IF i > Len(ps) THEN 0
    ELSE (IF ps[i].player_id = player_id
          THEN points_for_prediction(ps[i].pick, ms[ps[i].match_id]) ELSE 0)
         + PlayerTotal(ps, ms, player_id, i + 1)

\* faulty variant: reverse=True forgotten, smallest total first
InsertSortedAscending(sorted, e) ==
    LET k == Cardinality({i \in DOMAIN sorted : sorted[i].total <= e.total})
    IN  SubSeq(sorted, 1, k) \o <<e>> \o SubSeq(sorted, k + 1, Len(sorted))

\* list.sort(key=total, reverse=True): stable, so entries with equal totals
\* keep their order; insertion of entry e into a sorted list
InsertSorted(sorted, e) ==
    LET k == Cardinality({i \in DOMAIN sorted : sorted[i].total >= e.total})
    IN  SubSeq(sorted, 1, k) \o <<e>> \o SubSeq(sorted, k + 1, Len(sorted))

RECURSIVE SortDescending(_, _)
SortDescending(list, i) ==
    IF i = 0 THEN <<>>
    ELSE InsertSorted(SortDescending(list, i - 1), list[i])

\* totals: player_totals as handed to the template
totals(ps, ms) ==
    LET player_totals ==
            [p \in PlayerIds |->
                [player |-> players[p], total |-> PlayerTotal(ps, ms, p, 1)]]
    IN  SortDescending(player_totals, Len(player_totals))

----------------------------------------------------------------------------
(* Requests *)

Init ==
    /\ now = 0
    /\ matches = <<>>
    /\ predictions = <<>>
    /\ response = [route |-> "init", code |-> 200, body |-> <<>>]
    /\ requests = 0

\* the clock advances between requests
Tick ==
    /\ now < MaxTime
    /\ now' = now + 1
    /\ UNCHANGED <<matches, predictions, response, requests>>

\* GET /fetch_matchday/<matchday>
FetchMatchday ==
    /\ requests < MaxRequests
    /\ \E matchday \in Matchdays, resp \in FeedResponses :
          LET out == upsert_matches_from_api(matches, matchday, resp)
          IN  /\ matches' = out.matches
              /\ response' =
                    IF out.raised
                    THEN [route |-> "fetch_matchday", code |-> 500,
                          body |-> <<"error">>]
                    ELSE [route |-> "fetch_matchday", code |-> 200,
                          body |-> <<"ok", out.added>>]
    /\ requests' = requests + 1
    /\ UNCHANGED <<now, predictions>>

\* POST /make_prediction
MakePrediction ==
    /\ requests < MaxRequests
    /\ \E player_id \in PlayerIds, matchday \in Matchdays :
          \E form \in [MatchesOfMatchday(matches, matchday) -> PickInputs] :
              predictions' =
                  make_prediction(predictions, matches, now, player_id, matchday, form)
    /\ response' = [route |-> "make_prediction", code |-> 302, body |-> <<>>]
    /\ requests' = requests + 1
    /\ UNCHANGED <<now, matches>>

\* POST /admin/manual_results
AdminManualResults ==
    /\ requests < MaxRequests
    /\ \E ids \in {x \in SUBSET (1..Len(matches) + 1) : Cardinality(x) <= MaxManual} :
          \E form \in [ids -> ManualEntries] :
              /\ matches' = admin_manual_results(matches, form)
              /\ response' = [route |-> "admin_manual_results",
                              code |-> IF ManualRaises(form) THEN 500 ELSE 302,
                              body |-> <<>>]
    /\ requests' = requests + 1
    /\ UNCHANGED <<now, predictions>>

\* GET /totals
Totals ==
    /\ response' = [route |-> "totals", code |-> 200,
                    body |-> totals(predictions, matches)]
    /\ UNCHANGED <<now, matches, predictions, requests>>

Next ==
    \/ Tick
    \/ FetchMatchday
    \/ MakePrediction
    \/ AdminManualResults
    \/ Totals

Spec == Init /\ [][Next]_vars

----------------------------------------------------------------------------
(* Properties *)

\* the stored rows of one (player, match) pair, in primary-key order
RowsFor(ps, player_id, match_id) ==
    SelectSeq(ps, LAMBDA r : r.player_id = player_id /\ r.match_id = match_id)

\* a submitted field carries a pick: it is present and not empty
Filled(pick) == pick # Nothing /\ pick # Some(<<>>)

\* another request can be served in the current state
Serving == requests < MaxRequests

\* C1: a submission served at time now writes the pick of a match only
\* when now < kickoff - 5 minutes; a match at or past its cutoff is skipped
\* with its stored rows exactly as they were, and the filled-in picks of the
\* other matches of the round are written all the same.
C1_LockWindow ==
    Serving => \A p \in PlayerIds, d \in Matchdays :
        \A form \in [MatchesOfMatchday(matches, d) -> PickInputs] :
            LET after == make_prediction(predictions, matches, now, p, d, form)
            IN  \A m \in MatchIds, q \in PlayerIds :
                    LET open == now < matches[m].utc_date - 5
                    IN  /\ RowsFor(after, q, m) # RowsFor(predictions, q, m) => open
                        /\ ~open => RowsFor(after, q, m) = RowsFor(predictions, q, m)
                        /\ (open /\ q = p /\ m \in DOMAIN form /\ Filled(form[m])) =>
                              /\ Len(RowsFor(after, q, m)) = 1
                              /\ RowsFor(after, q, m)[1].pick = Upper(form[m][1])
                              /\ RowsFor(after, q, m)[1].created_at = now

\* a submission has been served while one match of the round was past its
\* cutoff, holding an earlier pick, and another was still open and written
C1_Witness ==
    /\ response.route = "make_prediction"
    /\ \E a \in MatchIds, b \in MatchIds, p \in PlayerIds :
          /\ matches[a].matchday = matches[b].matchday
          /\ now >= matches[a].utc_date - 5
          /\ now < matches[b].utc_date - 5
          /\ Len(RowsFor(predictions, p, a)) = 1
          /\ RowsFor(predictions, p, a)[1].created_at < now
          /\ Len(RowsFor(predictions, p, b)) = 1
          /\ RowsFor(predictions, p, b)[1].created_at = now

\* C2: the table holds at most one Prediction per (player, match), before
\* and after every submission, and after a submission each accepted pick is
\* the pick of that one row, whatever pick was stored before.
C2_OnePredictionPerPair ==
    /\ \A i \in DOMAIN predictions, j \in DOMAIN predictions :
          (predictions[i].player_id = predictions[j].player_id
           /\ predictions[i].match_id = predictions[j].match_id) => i = j
    /\ Serving => \A p \in PlayerIds, d \in Matchdays :
          \A form \in [MatchesOfMatchday(matches, d) -> PickInputs] :
              LET after == make_prediction(predictions, matches, now, p, d, form)
              IN  /\ \A i \in DOMAIN after, j \in DOMAIN after :
                        (after[i].player_id = after[j].player_id
                         /\ after[i].match_id = after[j].match_id) => i = j
                  /\ \A m \in DOMAIN form :
                        (Filled(form[m]) /\ now < matches[m].utc_date - 5) =>
                            \E i \in DOMAIN after :
                                /\ after[i].player_id = p
                                /\ after[i].match_id = m
                                /\ after[i].pick = Upper(form[m][1])

\* a pick was stored and then replaced: the first row ever created was
\* written again after the second row was created
C2_Witness ==
    /\ response.route = "make_prediction"
    /\ Len(predictions) >= 2
    /\ predictions[1].created_at > predictions[2].created_at

\* C4: every stored Prediction has a pick in {HOME, AWAY, DRAW}.
C4_PicksAreValid ==
    \A i \in DOMAIN predictions : predictions[i].pick \in {HOME, AWAY, DRAW}

\* C10: time never runs backwards, and in a step that leaves the kickoff of
\* a match as it is, a match at or past its cutoff stays so and the picks
\* stored for it, for every player, stay as they are.
C10_LockedPicksStayFixed ==
    [][/\ now' >= now
       /\ \A m \in DOMAIN matches :
             (/\ now >= matches[m].utc_date - 5
              /\ m \in DOMAIN matches'
              /\ matches'[m].utc_date = matches[m].utc_date) =>
                 /\ now' >= matches'[m].utc_date - 5
                 /\ \A p \in PlayerIds :
                       /\ Len(RowsFor(predictions', p, m)) = Len(RowsFor(predictions, p, m))
                       /\ \A i \in DOMAIN RowsFor(predictions, p, m) :
                             RowsFor(predictions', p, m)[i].pick
                                 = RowsFor(predictions, p, m)[i].pick]_vars

\* a submission has been served after the cutoff of a match that holds a
\* pick from before the cutoff
C10_Witness ==
    /\ response.route = "make_prediction"
    /\ \E m \in MatchIds, p \in PlayerIds :
          /\ now >= matches[m].utc_date - 5
          /\ Len(RowsFor(predictions, p, m)) = 1
          /\ RowsFor(predictions, p, m)[1].created_at < now

\* the match ids of a feed list, and the last record a list holds for an id
\* (a repeated id is processed twice, so the later record is what remains)
FeedIds(feed) == {feed[i].id : i \in DOMAIN feed}
LastRecord(feed, id) ==
    feed[CHOOSE i \in DOMAIN feed :
            feed[i].id = id /\ \A j \in DOMAIN feed : feed[j].id = id => j <= i]

StoredIds(ms) == {ms[i].api_match_id : i \in DOMAIN ms}

\* the feed call fails: a transport error or a non-success status
Fails(resp) == resp.kind = "transport_error" \/ resp.code \notin 200..299

\* C3: from every state in which a request can be served, reconciling a
\* round twice in a row against the same feed response leaves the Match
\* table after the second call as it was after the first, and the second
\* call reports no newly created match.
C3_ReconcileIdempotent ==
    Serving => \A d \in Matchdays, resp \in FeedResponses :
        LET first == upsert_matches_from_api(matches, d, resp)
            second == upsert_matches_from_api(first.matches, d, resp)
        IN  /\ second.matches = first.matches
            /\ second.added = 0

\* a round has been fetched again and nothing was created
C3_Witness ==
    /\ response.route = "fetch_matchday"
    /\ response.body = <<"ok", 0>>
    /\ Len(matches) = Cardinality(ApiIds)
    /\ requests >= 2

\* C5: each stored Match has both scores present or both absent.
C5_ScoresBothOrNeither ==
    \A i \in DOMAIN matches :
        IsNone(matches[i].home_score) <=> IsNone(matches[i].away_score)

\* every pick a Prediction row can carry, and more
AnyPicks == {HOME, AWAY, DRAW, <<"X">>, <<>>}

C7_FeedFailureChangesNothing ==
    /\ [](Serving => \A d \in Matchdays, resp \in FeedResponses :
             Fails(resp) =>
                 LET out == upsert_matches_from_api(matches, d, resp)
                 IN  out.raised /\ out.matches = matches)
    /\ [][(response'.route = "fetch_matchday" /\ response'.code = 500) =>
             (matches' = matches /\ predictions' = predictions)]_vars

\* a fetch has failed while matches and predictions were stored
C7_Witness ==
    /\ response.route = "fetch_matchday"
    /\ response.code = 500
    /\ matches # <<>>
    /\ predictions # <<>>

\* the points of a stored prediction, from the scores of its match
Earned(pred) ==
    LET m == matches[pred.match_id]
    IN  /\ m.home_score # Nothing /\ m.away_score # Nothing
        /\ \/ pred.pick = HOME /\ m.home_score[1] > m.away_score[1]
           \/ pred.pick = AWAY /\ m.home_score[1] < m.away_score[1]
           \/ pred.pick = DRAW /\ m.home_score[1] = m.away_score[1]

\* C8: the leaderboard lists every player exactly once, with the number of
\* the player's stored predictions whose pick is the result of its match,
\* ordered by total, largest first.
C8_Leaderboard ==
    response.route = "totals" =>
        LET board == response.body
        IN  /\ Len(board) = NumPlayers
            /\ \A p \in PlayerIds :
                  \E i \in DOMAIN board :
                      /\ board[i].player = DefaultNames[p]
                      /\ \A j \in DOMAIN board : board[j].player = DefaultNames[p] => j = i
                      /\ board[i].total =
                            Cardinality({k \in DOMAIN predictions :
                                            /\ predictions[k].player_id = p
                                            /\ Earned(predictions[k])})
            /\ \A i \in DOMAIN board, j \in DOMAIN board :
                  i < j => board[i].total >= board[j].total

\* the leaderboard was computed with a player who picked HOME on a home win
\* and AWAY on a draw, total 1, ranked ahead of the first player of the roster
C8_Witness ==
    /\ response.route = "totals"
    /\ response.body[1].player = DefaultNames[2]
    /\ response.body[1].total = 1
    /\ \E a \in DOMAIN predictions, b \in DOMAIN predictions :
          /\ predictions[a].player_id = 2 /\ predictions[b].player_id = 2
          /\ predictions[a].pick = HOME
          /\ result_of_match(matches[predictions[a].match_id]) = Some(HOME)
          /\ predictions[b].pick = AWAY
          /\ result_of_match(matches[predictions[b].match_id]) = Some(DRAW)

\* C9: a successful reconcile is an upsert keyed by the external match id:
\* afterwards there is one Match per external id; every earlier row is still
\* there with its external id and round; a row whose id is in the response
\* has the kickoff, team names, status and scores of its record (the later
\* record when the id is repeated; SCHEDULED when the record has no status;
\* both scores absent when it has no full-time score); a new row has the
\* caller's round; rows not in the response are unchanged; the count
\* returned is the number of feed ids not stored before; and no fetch
\* request changes the Prediction table.
C9_ReconcileIsUpsert ==
    /\ [](Serving => \A d \in Matchdays, resp \in FeedResponses :
             ~Fails(resp) =>
                 LET feed == resp.matches
                     out == upsert_matches_from_api(matches, d, resp)
                     after == out.matches
                 IN  /\ ~out.raised
                     \* one Match per external id
                     /\ \A i \in DOMAIN after, j \in DOMAIN after :
                           after[i].api_match_id = after[j].api_match_id => i = j
                     /\ StoredIds(after) = StoredIds(matches) \cup FeedIds(feed)
                     \* rows are kept, with their external id and round
                     /\ \A i \in DOMAIN matches :
                           /\ i \in DOMAIN after
                           /\ after[i].api_match_id = matches[i].api_match_id
                           /\ after[i].matchday = matches[i].matchday
                           /\ matches[i].api_match_id \notin FeedIds(feed) =>
                                 after[i] = matches[i]
                     \* rows of the response carry the record's fields
                     /\ \A i \in DOMAIN after :
                           after[i].api_match_id \in FeedIds(feed) =>
                               LET r == LastRecord(feed, after[i].api_match_id)
                                   scored == r.score # Nothing
                                             /\ r.score[1].fullTime # Nothing
                               IN  /\ after[i].utc_date = r.utcDate
                                   /\ after[i].home_team = r.homeTeam.name
                                   /\ after[i].away_team = r.awayTeam.name
                                   /\ r.status # Nothing => after[i].status = r.status[1]
                                   /\ r.status = Nothing => after[i].status = "SCHEDULED"
                                   /\ scored =>
                                         /\ after[i].home_score = r.score[1].fullTime[1].home
                                         /\ after[i].away_score = r.score[1].fullTime[1].away
                                   /\ ~scored =>
                                         /\ after[i].home_score = Nothing
                                         /\ after[i].away_score = Nothing
                     \* new rows carry the caller's round
                     /\ \A i \in DOMAIN after :
                           i \notin DOMAIN matches => after[i].matchday = d
                     /\ out.added = Cardinality(FeedIds(feed) \ StoredIds(matches)))
    /\ [][response'.route = "fetch_matchday" => predictions' = predictions]_vars

\* a reconcile has updated a stored match in place (moved and renamed it)
\* and created nothing, while predictions were stored
C9_Witness ==
    /\ response.route = "fetch_matchday"
    /\ response.body = <<"ok", 0>>
    /\ predictions # <<>>
    /\ \E i \in DOMAIN matches :
          /\ matches[i].home_team = "Renamed FC"
          /\ matches[i].utc_date = MovedKickoff(matches[i].api_match_id)
          /\ matches[i].matchday = 2

====
